---- MODULE Spec2Model ----
(***************************************************************************)
(* The PyCaret custom-model notebook: the PyCaretModel adapter (load the   *)
(* pickled pipeline, patch its memory directory, predict), the signature   *)
(* inferred from a sample input/output pair, and the model registered with *)
(* that signature.                                                         *)
(*                                                                         *)
(* Python scalars are records [t, n, s]: t is the Python type, n the       *)
(* number (an int as itself, a float in units of 1/Decimals) and s the     *)
(* text.  A DataFrame is [columns, rows, dtypes], the dtypes being what    *)
(* pandas settles on when the frame is built.                              *)
(***************************************************************************)
EXTENDS Integers, Sequences, FiniteSets, TLC

\* ------------------------------------------------------------------ bounds

\* Longest batch (rows) handed to predict or to the signature inference.
MaxRows == 2

\* Longest sample (rows) drawn for the signature inference on its own.
MaxSample == 2

\* Floats are held as integers in units of 1/Decimals (four decimals, as the
\* scores predict_model reports: 0.6296, 0.9264, ...).
Decimals == 10000

\* ------------------------------------------------------------ Python values

PyInt(k) == [t |-> "int", n |-> k, s |-> ""]

PyFloat(k) == [t |-> "float", n |-> k, s |-> ""]

PyStr(x) == [t |-> "str", n |-> 0, s |-> x]

\* The two missing values: None, and the float nan.
PyNone == [t |-> "NoneType", n |-> 0, s |-> ""]

PyNaN == [t |-> "float", n |-> 1, s |-> "nan"]

\* pandas' isnull() of a value.
IsNull(v) == v.t = "NoneType" \/ (v.t = "float" /\ v.s = "nan")

\* All sequences over S of length 0..n.
SeqsUpTo(S, n) == UNION {[1..k -> S] : k \in 0..n}

\* ------------------------------------------------------------------- pandas

\* The dtype pandas gives a column built from Python values: all ints ->
\* int64, numbers with at least one float or one None (which becomes nan) ->
\* float64, anything else (text, None alone, or no value at all) -> object.
ColumnDtype(vals) ==
    IF Len(vals) = 0 THEN "object"
    ELSE IF \A i \in 1..Len(vals) : vals[i].t = "int" THEN "int64"
    ELSE IF /\ \A i \in 1..Len(vals) : vals[i].t \in {"int", "float", "NoneType"}
            /\ \E i \in 1..Len(vals) : vals[i].t \in {"int", "float"}
    THEN "float64"
    ELSE "object"

\* The j-th column of a list of rows.
Column(data, j) == [i \in 1..Len(data) |-> data[i][j]]

\* pd.DataFrame(data, columns=columns)
DataFrame(data, columns) ==
    [columns |-> columns,
     rows    |-> data,
     dtypes  |-> [j \in 1..Len(columns) |-> ColumnDtype(Column(data, j))]]

\* Position of column `name` in a frame, 0 when the frame has no such column.
ColumnIndex(df, name) ==
    IF \E j \in 1..Len(df.columns) : df.columns[j] = name
    THEN CHOOSE j \in 1..Len(df.columns) : df.columns[j] = name
    ELSE 0

\* ---------------------------------------------------------------- test data

\* Three columns of col_nms, one of each Python type.
col_nms == <<"Id", "DiscMM", "Store7">>

\* Rows 1 and 2 of test_data on those columns (DiscMM is 0.00 and 0.30).
test_data ==
    << <<PyInt(1), PyFloat(0), PyStr("No")>>,
       <<PyInt(2), PyFloat(3000), PyStr("No")>> >>

TestRows == {test_data[i] : i \in 1..Len(test_data)}

\* The batches handed to predict: any rows of the test data, in any order and
\* number, with all the columns or with the last column missing.
DropLast(seq) == SubSeq(seq, 1, Len(seq) - 1)

Batches ==
    {DataFrame(data, col_nms) : data \in SeqsUpTo(TestRows, MaxRows)}
    \cup
    {DataFrame([i \in 1..Len(data) |-> DropLast(data[i])], DropLast(col_nms)) :
        data \in SeqsUpTo(TestRows, MaxRows)}

\* ------------------------------------------------------------------ pycaret

\* The artifact names the ModelContext may carry, as character sequences:
\* 'm.pkl' (as 'juice_best_model.pkl' in the notebook) and 'm.bin'.
Pkl == <<".", "p", "k", "l">>

ArtifactPaths == {<<"m">> \o Pkl, <<"m", ".", "b", "i", "n">>}

\* What a file on disk can be: missing, not a pickle, or a pickled pipeline.
FileKinds == {"absent", "corrupt", "pipeline"}

\* P(CH) the trained classifier gives a row, in units of 1/Decimals.
Probas == {2157, Decimals}

\* A trained pipeline: its class probabilities per row, whether its estimator
\* scores a frame of zero rows or raises on it, and its memory directory.
Pipelines ==
    [proba : [TestRows -> Probas], acceptsEmpty : BOOLEAN, memory : {"default"}]

\* Mutant of load_model: every failure to load is reported as a missing file.
load_model_lenient(files, content, model_name) ==
    LET file == model_name \o Pkl
    IN  IF file \notin DOMAIN files \/ files[file] # "pipeline"
        THEN [raised |-> "FileNotFoundError", model |-> <<>>]
        ELSE [raised |-> "none", model |-> <<content>>]

\* load_model(model_name, verbose=False): opens model_name + '.pkl'.
load_model(files, content, model_name) ==
    LET file == model_name \o Pkl
    IN  IF file \notin DOMAIN files \/ files[file] = "absent"
        THEN [raised |-> "FileNotFoundError", model |-> <<>>]
        ELSE IF files[file] = "corrupt"
        THEN [raised |-> "UnpicklingError", model |-> <<>>]
        ELSE [raised |-> "none", model |-> <<content>>]

\* Mutant of ScoreRow: the score is reported as a percentage.
ScoreRow_percent(model, row) ==
    LET p == model.proba[row]
    IN  IF 2 * p >= Decimals
        THEN <<PyStr("CH"), PyFloat(100 * p)>>
        ELSE <<PyStr("MM"), PyFloat(100 * (Decimals - p))>>

\* The label and score of one row: the likelier class and its probability.
ScoreRow(model, row) ==
    LET p == model.proba[row]
    IN  IF 2 * p >= Decimals
        THEN <<PyStr("CH"), PyFloat(p)>>
        ELSE <<PyStr("MM"), PyFloat(Decimals - p)>>

\* predict_model(model, data=X): raises when a column the pipeline was fitted
\* on is missing or when the estimator refuses the frame; otherwise returns
\* the rows of X, each with its label and score appended.
predict_model(model, X) ==
    IF \E j \in 1..Len(col_nms) : ColumnIndex(X, col_nms[j]) = 0
    THEN [raised |-> "KeyError", df |-> <<>>]
    ELSE IF Len(X.rows) = 0 /\ ~model.acceptsEmpty
    THEN [raised |-> "ValueError", df |-> <<>>]
    ELSE [raised |-> "none",
          df |-> << [columns |-> X.columns \o <<"prediction_label", "prediction_score">>,
                     rows    |-> [i \in 1..Len(X.rows) |->
                                     X.rows[i] \o ScoreRow(model, X.rows[i])],
                     dtypes  |-> X.dtypes \o <<"object", "float64">>] >>]

\* ------------------------------------------------- snowflake.ml signatures

\* Whether the installed snowflake-ml validates nulls: it then rejects a
\* column with no non-null value and types the others by their non-null
\* values; without the validation it types a column as it stands.  The
\* notebook pins no version, so either may be installed.
VARIABLE null_check

\* The values the samples drawn for the inference are made of: 1, 1.0, 2.5
\* and 'No'.
SampleValues == {PyInt(1), PyFloat(Decimals), PyFloat(25000), PyStr("No")}

\* The column names of such a sample: one column, or two in either order.
SampleColumns == {<<"DiscMM">>, <<"Id", "DiscMM">>, <<"DiscMM", "Id">>}

\* Sample inputs: frames built as test_pd is, from rows of Python values.
SampleInputs ==
    UNION {{DataFrame(data, cs) : data \in SeqsUpTo([1..Len(cs) -> SampleValues], MaxSample)} :
              cs \in SampleColumns}

\* The output frame that goes with a sample of n rows.
SampleOutput(n) ==
    DataFrame([i \in 1..n |-> <<PyStr("CH"), PyFloat(7843)>>],
              <<"prediction_label", "prediction_score">>)

\* Mutant of FeatureDtype: the type is read off the first value alone.
FeatureDtype_first(df, j) ==
    LET first == df.rows[1][j]
    IN  IF first.t = "int" THEN "INT64"
        ELSE IF first.t = "float" THEN "DOUBLE"
        ELSE "STRING"

\* The values of column j the inference looks at: all of them, or with the
\* null validation the non-null ones.
Inspected(df, j) ==
    IF null_check
    THEN SelectSeq(Column(df.rows, j), LAMBDA v : ~IsNull(v))
    ELSE Column(df.rows, j)

\* The DataType of column j of a frame with rows: from the column's dtype,
\* and for an object column from the first value inspected; "" when it has
\* none.
FeatureDtype(df, j) ==
    IF df.dtypes[j] = "int64" THEN "INT64"
    ELSE IF df.dtypes[j] = "float64" THEN "DOUBLE"
    ELSE IF Len(Inspected(df, j)) >= 1 /\ Inspected(df, j)[1].t = "str" THEN "STRING"
    ELSE ""

\* The frame can be given a signature: it has rows, with the null validation
\* each column has a non-null value, and each object column holds values of
\* one supported type.
Typeable(df) ==
    /\ Len(df.rows) >= 1
    /\ \A j \in 1..Len(df.columns) :
          /\ null_check => Len(Inspected(df, j)) >= 1
          /\ FeatureDtype(df, j) # ""
          /\ df.dtypes[j] = "object" =>
                \A i \in 1..Len(Inspected(df, j)) :
                    Inspected(df, j)[i].t = Inspected(df, j)[1].t

\* Mutant of infer_features: the features are listed last column first.
infer_features_reversed(df) ==
    [j \in 1..Len(df.columns) |->
        [dtype |-> FeatureDtype(df, Len(df.columns) + 1 - j),
         name  |-> df.columns[Len(df.columns) + 1 - j]]]

\* One FeatureSpec per column of the frame, in the frame's column order.
infer_features(df) ==
    [j \in 1..Len(df.columns) |->
        [dtype |-> FeatureDtype(df, j), name |-> df.columns[j]]]

\* model_signature.infer_signature(input_data, output_data)
infer_signature(input_data, output_data) ==
    IF Typeable(input_data) /\ Typeable(output_data)
    THEN [raised |-> "none",
          sign   |-> << [inputs  |-> infer_features(input_data),
                         outputs |-> infer_features(output_data)] >>]
    ELSE [raised |-> "ValueError", sign |-> <<>>]

\* The methods of PyCaretModel marked @custom_model.inference_api.
InferenceApis == {"predict"}

\* The name the registry gives a function: the method's name in upper case.
FunctionName(method) == IF method = "predict" THEN "PREDICT" ELSE "?"

\* Mutant of log_model: every inference method of the model is registered,
\* and a method named in no signature gets an empty one.
log_model_all(model, signatures) ==
    [raised |-> "none",
     mv     |-> << [model_name   |-> "pycaret_juice",
                    version_name |-> "version_2",
                    model        |-> model,
                    functions    |-> {[name |-> FunctionName(m),
                                       target_method |-> m,
                                       signature |-> [inputs |-> <<>>, outputs |-> <<>>]] :
                                         m \in InferenceApis}] >>]

\* snowml_registry.log_model(model, ..., signatures=signatures): the model
\* version, holding the model and one function per entry of `signatures`;
\* raises when an entry names no inference method of the model.
log_model(model, signatures) ==
    IF \E m \in DOMAIN signatures : m \notin InferenceApis
    THEN [raised |-> "ValueError", mv |-> <<>>]
    ELSE [raised |-> "none",
          mv     |-> << [model_name   |-> "pycaret_juice",
                         version_name |-> "version_2",
                         model        |-> model,
                         functions    |-> {[name |-> FunctionName(m),
                                            target_method |-> m,
                                            signature |-> signatures[m]] :
                                              m \in DOMAIN signatures}] >>]

\* custom_mv.show_functions()
show_functions(mv) == mv.functions

\* ------------------------------------------------------- the whole sample

\* col_nms in full: the 18 columns of the sample batch.
all_col_nms ==
    <<"Id", "WeekofPurchase", "StoreID", "PriceCH", "PriceMM", "DiscCH",
      "DiscMM", "SpecialCH", "SpecialMM", "LoyalCH", "SalePriceMM",
      "SalePriceCH", "PriceDiff", "Store7", "PctDiscMM", "PctDiscCH",
      "ListPriceDiff", "STORE">>

\* test_data in full: its 5 rows, the floats rounded to four decimals.
all_test_data ==
    << <<PyInt(1), PyInt(237), PyInt(1), PyFloat(17500), PyFloat(19900),
         PyFloat(0), PyFloat(0), PyInt(0), PyInt(0), PyFloat(5000),
         PyFloat(19900), PyFloat(17500), PyFloat(2400), PyStr("No"),
         PyFloat(0), PyFloat(0), PyFloat(2400), PyInt(1)>>,
       <<PyInt(2), PyInt(239), PyInt(1), PyFloat(17500), PyFloat(19900),
         PyFloat(0), PyFloat(3000), PyInt(0), PyInt(1), PyFloat(6000),
         PyFloat(16900), PyFloat(17500), PyFloat(-600), PyStr("No"),
         PyFloat(1508), PyFloat(0), PyFloat(2400), PyInt(1)>>,
       <<PyInt(3), PyInt(245), PyInt(1), PyFloat(18600), PyFloat(20900),
         PyFloat(1700), PyFloat(0), PyInt(0), PyInt(0), PyFloat(6800),
         PyFloat(20900), PyFloat(16900), PyFloat(4000), PyStr("No"),
         PyFloat(0), PyFloat(914), PyFloat(2300), PyInt(1)>>,
       <<PyInt(4), PyInt(227), PyInt(1), PyFloat(16900), PyFloat(16900),
         PyFloat(0), PyFloat(0), PyInt(0), PyInt(0), PyFloat(4000),
         PyFloat(16900), PyFloat(16900), PyFloat(0), PyStr("No"), PyFloat(0),
         PyFloat(0), PyFloat(0), PyInt(1)>>,
       <<PyInt(5), PyInt(228), PyInt(7), PyFloat(16900), PyFloat(16900),
         PyFloat(0), PyFloat(0), PyInt(0), PyInt(0), PyFloat(9565),
         PyFloat(16900), PyFloat(16900), PyFloat(0), PyStr("Yes"), PyFloat(0),
         PyFloat(0), PyFloat(0), PyInt(0)>> >>

\* test_pd = pd.DataFrame(test_data, columns=col_nms)
test_pd == DataFrame(all_test_data, all_col_nms)

\* The frame built from rows i..j of test_data:
\* pd.DataFrame(test_data[i-1:j], columns=col_nms).
RowsOf(i, j) == DataFrame(SubSeq(all_test_data, i, j), all_col_nms)

\* The batches of the end-to-end runs: every run of consecutive rows of
\* test_pd, the empty one included.
SampleBatches ==
    {RowsOf(i, j) : i \in 1..Len(all_test_data), j \in 0..Len(all_test_data)}

\* A stub of the trained pipeline: P(CH) = 0.5 for every row, so that
\* predict_model labels every row CH with score 0.5.
StubPipelines ==
    [proba : {[r \in {all_test_data[i] : i \in 1..Len(all_test_data)} |-> 5000]},
     acceptsEmpty : BOOLEAN, memory : {"default"}]

\* ------------------------------------------------------------- PyCaretModel

\* self.context.path("model_file")[:-4]
model_dir(ctx) == SubSeq(ctx, 1, Len(ctx) - 4)

\* Mutant of PyCaretModel: the pipeline's memory directory is left as loaded.
PyCaretModel_unpatched(ctx, files, content) ==
    LET loaded == load_model(files, content, SubSeq(ctx, 1, Len(ctx) - 4))
    IN  IF loaded.raised # "none"
        THEN [raised |-> loaded.raised, self |-> <<>>]
        ELSE [raised |-> "none",
              self   |-> <<[context |-> ctx, model |-> loaded.model[1]]>>]

\* PyCaretModel.__init__(context): the adapter, or the exception load_model
\* raised (and then no object exists).
PyCaretModel(ctx, files, content) ==
    LET loaded == load_model(files, content, model_dir(ctx))
    IN  IF loaded.raised # "none"
        THEN [raised |-> loaded.raised, self |-> <<>>]
        ELSE [raised |-> "none",
              self   |-> << [context |-> ctx,
                             model   |-> [loaded.model[1] EXCEPT !.memory = "/tmp/"]] >>]

\* predict with one of five slips: "reversed" returns the rows last to first,
\* "passthrough" returns predict_model's frame whole, "retry" calls
\* predict_model a second time when it raised, "stateful" leaves the pipeline
\* changed (the class probabilities swapped) for the next call, "inplace"
\* scores the caller's frame in place, leaving the new columns in it.
predict_variant(self, X, slip) ==
    LET model_output == predict_model(self.model, X)
        after == IF slip = "stateful"
                 THEN [self EXCEPT !.model.proba =
                          [r \in DOMAIN self.model.proba |-> Decimals - self.model.proba[r]]]
                 ELSE self
    IN  IF model_output.raised # "none"
        THEN [raised |-> model_output.raised, res_df |-> <<>>,
              scored |-> IF slip = "retry" THEN 2 ELSE 1, self |-> after, X |-> X]
        ELSE LET mo == model_output.df[1]
                 n  == Len(mo.rows)
                 l  == Len(X.columns) + 1
                 c  == Len(X.columns) + 2
             IN  [raised |-> "none",
                  res_df |-> IF slip = "passthrough" THEN <<mo>>
                             ELSE << [columns |-> <<"prediction_label", "prediction_score">>,
                                      rows    |-> [i \in 1..n |->
                                                      IF slip = "reversed"
                                                      THEN <<mo.rows[n + 1 - i][l], mo.rows[n + 1 - i][c]>>
                                                      ELSE <<mo.rows[i][l], mo.rows[i][c]>>],
                                      dtypes  |-> <<"object", "float64">>] >>,
                  scored |-> 1,
                  self   |-> after,
                  X      |-> IF slip = "inplace" THEN mo ELSE X]

predict_reversed(self, X) == predict_variant(self, X, "reversed")

predict_passthrough(self, X) == predict_variant(self, X, "passthrough")

predict_retry(self, X) == predict_variant(self, X, "retry")

predict_stateful(self, X) == predict_variant(self, X, "stateful")

predict_inplace(self, X) == predict_variant(self, X, "inplace")

\* PyCaretModel.predict(self, X): one call of predict_model, then the label
\* and score columns of its result as a new frame.  `scored` counts the calls
\* of predict_model made, `self` and `X` are the adapter and the caller's
\* frame after the call.
predict(self, X) ==
    LET model_output == predict_model(self.model, X)
    IN  IF model_output.raised # "none"
        THEN [raised |-> model_output.raised, res_df |-> <<>>, scored |-> 1,
              self |-> self, X |-> X]
        ELSE LET mo == model_output.df[1]
                 l  == ColumnIndex(mo, "prediction_label")
                 c  == ColumnIndex(mo, "prediction_score")
             IN  IF l = 0 \/ c = 0
                 THEN [raised |-> "KeyError", res_df |-> <<>>, scored |-> 1,
                       self |-> self, X |-> X]
                 ELSE [raised |-> "none",
                       res_df |-> << [columns |-> <<"prediction_label", "prediction_score">>,
                                      rows    |-> [i \in 1..Len(mo.rows) |->
                                                      <<mo.rows[i][l], mo.rows[i][c]>>],
                                      dtypes  |-> <<mo.dtypes[l], mo.dtypes[c]>>] >>,
                       scored |-> 1,
                       self   |-> self,
                       X      |-> X]

\* ------------------------------------------------------ remote execution

\* The name Snowflake gives a column declared under an unquoted identifier:
\* the identifier in upper case.
SqlName(name) ==
    CASE name = "Id" -> "ID"
      [] name = "DiscMM" -> "DISCMM"
      [] name = "Store7" -> "STORE7"
      [] name = "prediction_label" -> "PREDICTION_LABEL"
      [] name = "prediction_score" -> "PREDICTION_SCORE"
      [] OTHER -> name

\* session.create_dataframe(data, schema=columns): the rows as a table whose
\* columns are named by the schema.
create_dataframe(data, columns) ==
    [columns |-> [j \in 1..Len(columns) |-> SqlName(columns[j])], rows |-> data]

\* The orders in which the warehouse may take the n rows of a table.
RowOrders(n) == {p \in [1..n -> 1..n] : \A i, j \in 1..n : p[i] = p[j] => i = j}

\* The ways it may cut n rows so taken into batches: the batch number of each
\* position, batch 1 first, each batch a run of consecutive positions.
Cuts(n) ==
    {b \in [1..n -> 1..n] :
        /\ n >= 1 => b[1] = 1
        /\ \A i \in 2..n : b[i] \in {b[i - 1], b[i - 1] + 1}}

\* Mutant of run: the predictions are joined to the table's rows as stored,
\* not to the rows in the order they were taken.
run_by_position(mv, files, content, table, order, cut) ==
    LET f        == CHOOSE g \in mv.functions : g.target_method = "predict"
        names    == [j \in 1..Len(f.signature.inputs) |-> f.signature.inputs[j].name]
        outs     == [j \in 1..Len(f.signature.outputs) |-> f.signature.outputs[j].name]
        at(j)    == ColumnIndex(table, SqlName(names[j]))
        n        == Len(table.rows)
        taken    == [i \in 1..n |-> [j \in 1..Len(names) |-> table.rows[order[i]][at(j)]]]
        served   == PyCaretModel(mv.model.context, files, content)
        batch(k) == SelectSeq([i \in 1..n |-> i], LAMBDA i : cut[i] = k)
        frame(k) == DataFrame([h \in 1..Len(batch(k)) |-> taken[batch(k)[h]]], names)
        got(k)   == predict(served.self[1], frame(k))
        within(i) == Cardinality({h \in 1..i : cut[h] = cut[i]})
    IN  IF \E j \in 1..Len(names) : at(j) = 0
        THEN [raised |-> "ValueError", result |-> <<>>, self |-> <<>>]
        ELSE IF served.raised # "none"
        THEN [raised |-> "SnowparkSQLException", result |-> <<>>, self |-> <<>>]
        ELSE IF \E i \in 1..n : got(cut[i]).raised # "none"
        THEN [raised |-> "SnowparkSQLException", result |-> <<>>, self |-> served.self]
        ELSE [raised |-> "none",
              result |-> << [columns |-> table.columns \o
                                         [j \in 1..Len(outs) |-> SqlName(outs[j])],
                             rows    |-> [i \in 1..n |->
                                             table.rows[i] \o
                                             got(cut[i]).res_df[1].rows[within(i)]]] >>,
              self   |-> served.self]

\* custom_mv.run(table), function PREDICT: the table's columns are checked
\* against the signature's inputs; in the warehouse the adapter is built from
\* the logged context, the rows are taken in `order` and cut into batches by
\* `cut`, each batch goes to predict as a frame under the signature's input
\* names, and each row taken comes back with its batch's predictions for it
\* under the signature's output names.  A raise in the warehouse fails the
\* whole query.
run(mv, files, content, table, order, cut) ==
    LET f        == CHOOSE g \in mv.functions : g.target_method = "predict"
        names    == [j \in 1..Len(f.signature.inputs) |-> f.signature.inputs[j].name]
        outs     == [j \in 1..Len(f.signature.outputs) |-> f.signature.outputs[j].name]
        at(j)    == ColumnIndex(table, SqlName(names[j]))
        n        == Len(table.rows)
        taken    == [i \in 1..n |-> [j \in 1..Len(names) |-> table.rows[order[i]][at(j)]]]
        served   == PyCaretModel(mv.model.context, files, content)
        batch(k) == SelectSeq([i \in 1..n |-> i], LAMBDA i : cut[i] = k)
        frame(k) == DataFrame([h \in 1..Len(batch(k)) |-> taken[batch(k)[h]]], names)
        got(k)   == predict(served.self[1], frame(k))
        within(i) == Cardinality({h \in 1..i : cut[h] = cut[i]})
    IN  IF \E j \in 1..Len(names) : at(j) = 0
        THEN [raised |-> "ValueError", result |-> <<>>, self |-> <<>>]
        ELSE IF served.raised # "none"
        THEN [raised |-> "SnowparkSQLException", result |-> <<>>, self |-> <<>>]
        ELSE IF \E i \in 1..n : got(cut[i]).raised # "none"
        THEN [raised |-> "SnowparkSQLException", result |-> <<>>, self |-> served.self]
        ELSE [raised |-> "none",
              result |-> << [columns |-> table.columns \o
                                         [j \in 1..Len(outs) |-> SqlName(outs[j])],
                             rows    |-> [i \in 1..n |->
                                             table.rows[order[i]] \o
                                             got(cut[i]).res_df[1].rows[within(i)]]] >>,
              self   |-> served.self]

\* -------------------------------------------------------------------- state

VARIABLES
    pycaret_mc,        \* the ModelContext's 'model_file' artifact path
    disk,              \* file name -> what the file is
    pickled,           \* the pipeline a valid artifact file holds
    my_pycaret_model,  \* <<>> or <<the adapter>>
    raised,            \* the exception the last step raised, or "none"
    last,              \* <<>> or <<the latest predict call>>
    ref,               \* <<>> or <<one predict call made before `last`>>
    ran,               \* the steps of the notebook run so far
    sample,            \* <<>> or <<a sample pair drawn for the inference alone>>
    predict_sign,      \* <<>> or <<the inferred ModelSignature>>
    custom_mv,         \* <<>> or <<the registered model version>>
    remote             \* <<>> or <<the latest custom_mv.run call>>

vars == <<null_check, pycaret_mc, disk, pickled, my_pycaret_model, raised, last,
          ref, ran, sample, predict_sign, custom_mv, remote>>

\* The notebook's own start: the context names 'm.pkl', which may be missing,
\* damaged or a pickled pipeline; no other artifact file is on disk.  No
\* frame of these runs holds a null, so the null validation is left out.
Init ==
    /\ null_check = FALSE
    /\ pycaret_mc = <<"m">> \o Pkl
    /\ disk \in {d \in [ArtifactPaths -> FileKinds] :
                    \A f \in ArtifactPaths : f # pycaret_mc => d[f] = "absent"}
    /\ pickled \in Pipelines
    /\ my_pycaret_model = <<>>
    /\ raised = "none"
    /\ last = <<>>
    /\ ref = <<>>
    /\ ran = {}
    /\ sample = <<>>
    /\ predict_sign = <<>>
    /\ custom_mv = <<>>
    /\ remote = <<>>

\* Any context and any disk: the start of the runs that only build the adapter.
InitLoad ==
    /\ null_check = FALSE
    /\ pycaret_mc \in ArtifactPaths
    /\ disk \in [ArtifactPaths -> FileKinds]
    /\ pickled \in Pipelines
    /\ my_pycaret_model = <<>>
    /\ raised = "none"
    /\ last = <<>>
    /\ ref = <<>>
    /\ ran = {}
    /\ sample = <<>>
    /\ predict_sign = <<>>
    /\ custom_mv = <<>>
    /\ remote = <<>>

\* my_pycaret_model = PyCaretModel(pycaret_mc)
Construct ==
    /\ "construct" \notin ran
    /\ ran' = ran \cup {"construct"}
    /\ LET made == PyCaretModel(pycaret_mc, disk, pickled)
       IN  /\ my_pycaret_model' = made.self
           /\ raised' = made.raised
    /\ UNCHANGED <<null_check, pycaret_mc, disk, pickled, last, ref, sample, predict_sign, custom_mv, remote>>

\* output_pd = my_pycaret_model.predict(X)
Predict(X) ==
    /\ my_pycaret_model # <<>>
    /\ LET got  == predict(my_pycaret_model[1], X)
           call == [X |-> X, raised |-> got.raised, out |-> got.res_df,
                    scored |-> got.scored, after |-> got.X]
       IN  /\ my_pycaret_model' = <<got.self>>
           /\ raised' = got.raised
           /\ last' = <<call>>
           /\ ref' \in IF ref = <<>> THEN {<<>>, last} ELSE {ref}
    /\ ran' = ran \cup {"predict"}
    /\ UNCHANGED <<null_check, pycaret_mc, disk, pickled, sample, predict_sign, custom_mv, remote>>

\* predict_sign = model_signature.infer_signature(input_data=test_pd,
\* output_data=output_pd), on the input and output of the latest predict call.
InferSignature ==
    /\ last # <<>>
    /\ last[1].raised = "none"
    /\ LET got == infer_signature(last[1].X, last[1].out[1])
       IN  /\ raised' = got.raised
           /\ predict_sign' = IF got.raised = "none" THEN got.sign ELSE predict_sign
    /\ ran' = ran \cup {"infer"}
    /\ UNCHANGED <<null_check, pycaret_mc, disk, pickled, my_pycaret_model, last, ref, sample, custom_mv, remote>>

\* custom_mv = snowml_registry.log_model(my_pycaret_model, ...,
\* signatures={"predict": predict_sign}, ...)
LogModel ==
    /\ my_pycaret_model # <<>>
    /\ predict_sign # <<>>
    /\ custom_mv = <<>>
    /\ LET got == log_model(my_pycaret_model[1], [m \in {"predict"} |-> predict_sign[1]])
       IN  /\ raised' = got.raised
           /\ custom_mv' = got.mv
    /\ ran' = ran \cup {"log_model"}
    /\ UNCHANGED <<null_check, pycaret_mc, disk, pickled, my_pycaret_model, last, ref, sample, predict_sign, remote>>

Next ==
    \/ Construct
    \/ \E X \in Batches : Predict(X)
    \/ InferSignature
    \/ LogModel

Spec == Init /\ [][Next]_vars

\* The signature inference alone, on a drawn sample pair.
InitInfer ==
    /\ null_check \in BOOLEAN
    /\ pycaret_mc = <<"m">> \o Pkl
    /\ disk = [f \in ArtifactPaths |-> "absent"]
    /\ pickled \in {p \in Pipelines : p.acceptsEmpty /\ \A r \in TestRows : p.proba[r] = Decimals}
    /\ my_pycaret_model = <<>>
    /\ raised = "none"
    /\ last = <<>>
    /\ ref = <<>>
    /\ ran = {}
    /\ sample \in {<<[input_data |-> d, output_data |-> SampleOutput(Len(d.rows))]>> :
                       d \in SampleInputs}
    /\ predict_sign = <<>>
    /\ custom_mv = <<>>
    /\ remote = <<>>

\* predict_sign = model_signature.infer_signature(input_data, output_data)
InferSample ==
    /\ sample # <<>>
    /\ "infer" \notin ran
    /\ LET got == infer_signature(sample[1].input_data, sample[1].output_data)
       IN  /\ raised' = got.raised
           /\ predict_sign' = got.sign
    /\ ran' = ran \cup {"infer"}
    /\ UNCHANGED <<null_check, pycaret_mc, disk, pickled, my_pycaret_model, last, ref, sample, custom_mv, remote>>

NextInfer == InferSample

SpecInfer == InitInfer /\ [][NextInfer]_vars

\* The values of the samples with missing values: None, nan, 2.5 and 'No'.
MissingValues == {PyNone, PyNaN, PyFloat(25000), PyStr("No")}

MissingInputs ==
    UNION {{DataFrame(data, cs) : data \in SeqsUpTo([1..Len(cs) -> MissingValues], MaxSample)} :
              cs \in SampleColumns}

\* The signature inference alone, on a drawn sample that may have no rows
\* or hold missing values.
InitMissing ==
    /\ null_check \in BOOLEAN
    /\ pycaret_mc = <<"m">> \o Pkl
    /\ disk = [f \in ArtifactPaths |-> "absent"]
    /\ pickled \in {p \in Pipelines : p.acceptsEmpty /\ \A r \in TestRows : p.proba[r] = Decimals}
    /\ my_pycaret_model = <<>>
    /\ raised = "none"
    /\ last = <<>>
    /\ ref = <<>>
    /\ ran = {}
    /\ sample \in {<<[input_data |-> d, output_data |-> SampleOutput(Len(d.rows))]>> :
                       d \in MissingInputs}
    /\ predict_sign = <<>>
    /\ custom_mv = <<>>
    /\ remote = <<>>

NextMissing == InferSample

SpecMissing == InitMissing /\ [][NextMissing]_vars

\* The end-to-end runs: the stub pipeline on disk, the adapter built, predict
\* on batches of the whole sample, the signature inferred and the model
\* logged.
InitE2E ==
    /\ null_check = FALSE
    /\ pycaret_mc = <<"m">> \o Pkl
    /\ disk \in {d \in [ArtifactPaths -> FileKinds] :
                    \A f \in ArtifactPaths : f # pycaret_mc => d[f] = "absent"}
    /\ pickled \in StubPipelines
    /\ my_pycaret_model = <<>>
    /\ raised = "none"
    /\ last = <<>>
    /\ ref = <<>>
    /\ ran = {}
    /\ sample = <<>>
    /\ predict_sign = <<>>
    /\ custom_mv = <<>>
    /\ remote = <<>>

NextE2E ==
    \/ Construct
    \/ \E X \in SampleBatches : Predict(X)
    \/ InferSignature
    \/ LogModel

SpecE2E == InitE2E /\ [][NextE2E]_vars

\* Construction alone, over every artifact path and disk content.
NextLoad == Construct

SpecLoad == InitLoad /\ [][NextLoad]_vars

\* snowpark_df = session.create_dataframe(test_data, schema=col_nms)
\* custom_mv.run(snowpark_df), the warehouse taking and cutting the rows as it
\* chooses.
Run ==
    /\ custom_mv # <<>>
    /\ LET snowpark_df == create_dataframe(test_data, col_nms)
       IN  \E order \in RowOrders(Len(test_data)) : \E cut \in Cuts(Len(test_data)) :
              LET got == run(custom_mv[1], disk, pickled, snowpark_df, order, cut)
              IN  /\ raised' = got.raised
                  /\ remote' = << [table  |-> snowpark_df,
                                   order  |-> order,
                                   cut    |-> cut,
                                   raised |-> got.raised,
                                   out    |-> got.result,
                                   self   |-> got.self] >>
    /\ ran' = ran \cup {"run"}
    /\ UNCHANGED <<null_check, pycaret_mc, disk, pickled, my_pycaret_model, last, ref, sample, predict_sign, custom_mv>>

\* The notebook from the adapter to the remote run: every predict call is on
\* test_pd, the frame of test_data under col_nms.
NextRemote ==
    \/ Construct
    \/ Predict(DataFrame(test_data, col_nms))
    \/ InferSignature
    \/ LogModel
    \/ Run

SpecRemote == Init /\ [][NextRemote]_vars

\* ------------------------------------------------------------------ claims

\* The columns the pipeline was fitted on are all in X.
ColumnsMatch(X) == \A j \in 1..Len(col_nms) : ColumnIndex(X, col_nms[j]) # 0

\* The latest predict call returned a frame.
Returned == last # <<>> /\ last[1].raised = "none"

\* C1: a predict call that returns gives back as many rows as it was handed,
\* and row i of the result is the label and score the pipeline gives row i
\* of the input.
C1_RowsAligned ==
    Returned =>
        LET X   == last[1].X
            out == last[1].out[1]
        IN  /\ Len(out.rows) = Len(X.rows)
            /\ \A i \in 1..Len(X.rows) :
                  out.rows[i] = ScoreRow(my_pycaret_model[1].model, X.rows[i])

\* Witness of C1: a returned batch of two rows whose predictions differ.
C1_Witness ==
    /\ Returned
    /\ Len(last[1].X.rows) >= 2
    /\ last[1].out[1].rows[1] # last[1].out[1].rows[2]

\* C2: the frame a predict call returns has exactly the two columns
\* prediction_label and prediction_score, in that order, and every row has
\* exactly those two values, whatever columns predict_model's result held.
C2_TwoColumns ==
    Returned =>
        LET out == last[1].out[1]
        IN  /\ out.columns = <<"prediction_label", "prediction_score">>
            /\ Len(out.dtypes) = 2
            /\ \A i \in 1..Len(out.rows) : Len(out.rows[i]) = 2

\* Witness of C2: a returned batch with rows, for an input of three columns
\* (so predict_model's frame held five).
C2_Witness ==
    /\ Returned
    /\ Len(last[1].X.columns) = 3
    /\ Len(last[1].out[1].rows) >= 1

C4_Idempotent ==
    (ref # <<>> /\ last # <<>> /\ ref[1].X = last[1].X) =>
        /\ ref[1].out = last[1].out
        /\ ref[1].raised = last[1].raised

\* Witness of C4: two calls on the same batch of rows, both returned.
C4_Witness ==
    /\ ref # <<>>
    /\ Returned
    /\ ref[1].X = last[1].X
    /\ Len(last[1].X.rows) >= 1

\* The file load_model opens for the context's artifact path.
OpenedFile == model_dir(pycaret_mc) \o Pkl

\* C5: once construction has run, a missing file has raised
\* FileNotFoundError (ArtifactNotFound) and a file that is no pickled
\* pipeline has raised the unpickling error (ArtifactLoadError); in both
\* cases there is no adapter.
C5_ConstructFails ==
    "construct" \in ran =>
        /\ disk[OpenedFile] = "absent" =>
              raised = "FileNotFoundError" /\ my_pycaret_model = <<>>
        /\ disk[OpenedFile] = "corrupt" =>
              raised = "UnpicklingError" /\ my_pycaret_model = <<>>

\* Witness of C5: construction ran on a file that is no pickled pipeline.
C5_Witness ==
    /\ "construct" \in ran
    /\ disk[OpenedFile] = "corrupt"
    /\ raised = "UnpicklingError"

C7_OneFunction ==
    custom_mv # <<>> =>
        LET fs == show_functions(custom_mv[1])
        IN  /\ Cardinality(fs) = 1
            /\ \A f \in fs :
                  /\ f.target_method = "predict"
                  /\ f.name = "PREDICT"
                  /\ f.signature = predict_sign[1]

\* Witness of C7: a model version registered with a signature of three
\* inputs and two outputs.
C7_Witness ==
    /\ custom_mv # <<>>
    /\ \E f \in show_functions(custom_mv[1]) :
          Len(f.signature.inputs) = 3 /\ Len(f.signature.outputs) = 2

\* A value is a number, and a number without a fractional part.
IsNumber(v) == v.t \in {"int", "float"}

IsWhole(v) == v.t = "int" \/ (v.t = "float" /\ v.n % Decimals = 0)

\* The values of column j of the sample input.
SampleColumn(j) == Column(sample[1].input_data.rows, j)

\* A signature was inferred from the drawn sample.
Inferred == sample # <<>> /\ predict_sign # <<>>

\* C8 as stated: a column is typed by its values, a numeric column with a
\* fractional value as DOUBLE, a numeric column of whole numbers as INT64, a
\* column of text as STRING.
C8_ByValue ==
    Inferred =>
        \A j \in 1..Len(sample[1].input_data.columns) :
            LET col == SampleColumn(j)
                dt  == predict_sign[1].inputs[j].dtype
            IN  /\ (\A i \in 1..Len(col) : IsNumber(col[i])) =>
                      IF \E i \in 1..Len(col) : ~IsWhole(col[i])
                      THEN dt = "DOUBLE" ELSE dt = "INT64"
                /\ (\A i \in 1..Len(col) : col[i].t = "str") => dt = "STRING"

\* C8, amended: a column is typed by the dtype its Python values gave it when
\* the frame was built: a numeric column holding any float, fractional or
\* whole (1.0), is DOUBLE, a column of ints alone is INT64, a column of text
\* is STRING.
C8_ByPythonType ==
    Inferred =>
        \A j \in 1..Len(sample[1].input_data.columns) :
            LET col == SampleColumn(j)
                dt  == predict_sign[1].inputs[j].dtype
            IN  /\ (\A i \in 1..Len(col) : IsNumber(col[i])) =>
                      IF \E i \in 1..Len(col) : col[i].t = "float"
                      THEN dt = "DOUBLE" ELSE dt = "INT64"
                /\ (\A i \in 1..Len(col) : col[i].t = "str") => dt = "STRING"

\* Witness of C8: a signature inferred from a sample with a column holding
\* the int 1 first and the float 2.5 after it.
C8_Witness ==
    /\ Inferred
    /\ \E j \in 1..Len(sample[1].input_data.columns) :
          /\ Len(SampleColumn(j)) >= 2
          /\ SampleColumn(j)[1] = PyInt(1)
          /\ SampleColumn(j)[2] = PyFloat(25000)
          /\ predict_sign[1].inputs[j].dtype = "DOUBLE"

\* C9: the signature has one entry per column of the sample input and of
\* the sample output, in the frames' column order, each with the type of
\* the column it names.
C9_ColumnOrder ==
    Inferred =>
        LET inp == sample[1].input_data
            out == sample[1].output_data
            sig == predict_sign[1]
        IN  /\ Len(sig.inputs) = Len(inp.columns)
            /\ \A j \in 1..Len(inp.columns) :
                  /\ sig.inputs[j].name = inp.columns[j]
                  /\ sig.inputs[j].dtype = FeatureDtype(inp, j)
            /\ Len(sig.outputs) = Len(out.columns)
            /\ \A j \in 1..Len(out.columns) :
                  /\ sig.outputs[j].name = out.columns[j]
                  /\ sig.outputs[j].dtype = FeatureDtype(out, j)

\* Witness of C9: a signature inferred from a sample whose two columns are
\* not in alphabetical order and differ in type.
C9_Witness ==
    /\ Inferred
    /\ sample[1].input_data.columns = <<"Id", "DiscMM">>
    /\ predict_sign[1].inputs[1].dtype # predict_sign[1].inputs[2].dtype

\* Column j of the sample input holds no value that is not missing.
AllMissing(j) == \A i \in 1..Len(SampleColumn(j)) : IsNull(SampleColumn(j)[i])

RecordedSignature ==
    [inputs |->
        << [dtype |-> "INT64", name |-> "Id"],
           [dtype |-> "INT64", name |-> "WeekofPurchase"],
           [dtype |-> "INT64", name |-> "StoreID"],
           [dtype |-> "DOUBLE", name |-> "PriceCH"],
           [dtype |-> "DOUBLE", name |-> "PriceMM"],
           [dtype |-> "DOUBLE", name |-> "DiscCH"],
           [dtype |-> "DOUBLE", name |-> "DiscMM"],
           [dtype |-> "INT64", name |-> "SpecialCH"],
           [dtype |-> "INT64", name |-> "SpecialMM"],
           [dtype |-> "DOUBLE", name |-> "LoyalCH"],
           [dtype |-> "DOUBLE", name |-> "SalePriceMM"],
           [dtype |-> "DOUBLE", name |-> "SalePriceCH"],
           [dtype |-> "DOUBLE", name |-> "PriceDiff"],
           [dtype |-> "STRING", name |-> "Store7"],
           [dtype |-> "DOUBLE", name |-> "PctDiscMM"],
           [dtype |-> "DOUBLE", name |-> "PctDiscCH"],
           [dtype |-> "DOUBLE", name |-> "ListPriceDiff"],
           [dtype |-> "INT64", name |-> "STORE"] >>,
     outputs |->
        << [dtype |-> "STRING", name |-> "prediction_label"],
           [dtype |-> "DOUBLE", name |-> "prediction_score"] >>]

\* C12: with the stub pipeline, predict on the whole 5-row, 18-column sample
\* returns 5 rows, each CH with score 0.5, and the signature inferred from
\* that pair is the one the notebook shows: 18 typed inputs, and the outputs
\* prediction_label (STRING) and prediction_score (DOUBLE).
C12_EndToEnd ==
    /\ (Returned /\ last[1].X = test_pd) =>
          last[1].out[1].rows = [i \in 1..5 |-> <<PyStr("CH"), PyFloat(5000)>>]
    /\ (Returned /\ last[1].X = test_pd /\ predict_sign # <<>>) =>
          /\ Len(predict_sign[1].inputs) = 18
          /\ Len(predict_sign[1].outputs) = 2
          /\ predict_sign[1] = RecordedSignature

\* Witness of C12: predict returned on the whole sample and a signature was
\* inferred from that call.
C12_Witness ==
    /\ Returned
    /\ last[1].X = test_pd
    /\ Len(test_pd.rows) = 5
    /\ Len(test_pd.columns) = 18
    /\ predict_sign # <<>>
    /\ "infer" \in ran

\* The path without a '.pkl' suffix: the path itself when it has none.
WithoutPkl(path) ==
    IF Len(path) >= 4 /\ SubSeq(path, Len(path) - 3, Len(path)) = Pkl
    THEN SubSeq(path, 1, Len(path) - 4)
    ELSE path

\* C13: once construction has run, the path it handed to load_model is the
\* context's artifact path with the '.pkl' suffix removed and nothing else
\* changed, whatever artifact path the context carries.
C13_SuffixRemoved ==
    "construct" \in ran => model_dir(pycaret_mc) = WithoutPkl(pycaret_mc)

\* The latest remote run returned a table.
RemoteReturned == remote # <<>> /\ remote[1].raised = "none"

\* C14: an adapter that exists, in the notebook or built in the warehouse
\* for a remote run, holds a pipeline whose memory directory is '/tmp/', so
\* every predict call, local or remote, runs on a patched pipeline.
C14_MemoryPatched ==
    /\ my_pycaret_model # <<>> => my_pycaret_model[1].model.memory = "/tmp/"
    /\ last # <<>> => my_pycaret_model[1].model.memory = "/tmp/"
    /\ (remote # <<>> /\ remote[1].self # <<>>) =>
          remote[1].self[1].model.memory = "/tmp/"

\* Witness of C14: a local predict call and a remote run both returned, on a
\* pipeline that was pickled with its default memory directory.
C14_Witness ==
    /\ Returned
    /\ RemoteReturned
    /\ pickled.memory = "default"
    /\ my_pycaret_model[1].model.memory = "/tmp/"
    /\ remote[1].self[1].model.memory = "/tmp/"

\* C15: whatever predict calls were made, returned or raised, the adapter
\* is as construction left it (the context, the pickled pipeline, its
\* memory directory '/tmp/'), and the frame handed to the latest call is
\* after the call what it was before.
C15_NoSideEffect ==
    /\ my_pycaret_model # <<>> =>
          my_pycaret_model[1] =
              [context |-> pycaret_mc, model |-> [pickled EXCEPT !.memory = "/tmp/"]]
    /\ last # <<>> => last[1].after = last[1].X

\* Witness of C15: a call that raised and then a call that returned rows.
C15_Witness ==
    /\ ref # <<>>
    /\ ref[1].raised # "none"
    /\ Returned
    /\ Len(last[1].X.rows) >= 1

\* C16: a step has run only after the steps before it: predict after the
\* adapter was built from the file model_dir names, the inference after a
\* predict call that returned, the signature being the one of that call's
\* input and output, log_model after the inference, the remote run after
\* log_model; a registered model version holds the adapter and, for its one
\* function, that signature; and a remote run exists only once the model
\* version does.
C16_WorkflowOrder ==
    /\ my_pycaret_model # <<>> =>
          /\ "construct" \in ran
          /\ disk[model_dir(pycaret_mc) \o Pkl] = "pipeline"
    /\ "predict" \in ran => my_pycaret_model # <<>> /\ last # <<>>
    /\ "infer" \in ran => "predict" \in ran /\ Returned
    /\ predict_sign # <<>> =>
          /\ "infer" \in ran
          /\ predict_sign = infer_signature(last[1].X, last[1].out[1]).sign
    /\ "log_model" \in ran => predict_sign # <<>>
    /\ custom_mv # <<>> =>
          /\ "log_model" \in ran
          /\ custom_mv[1].model = my_pycaret_model[1]
          /\ show_functions(custom_mv[1]) # {}
          /\ \A f \in show_functions(custom_mv[1]) : f.signature = predict_sign[1]
    /\ "run" \in ran => custom_mv # <<>> /\ remote # <<>>
    /\ remote # <<>> => "run" \in ran /\ custom_mv # <<>>

\* Witness of C16: every step has run and the remote run returned.
C16_Witness ==
    /\ ran = {"construct", "predict", "infer", "log_model", "run"}
    /\ RemoteReturned
    /\ Len(remote[1].out[1].rows) = Len(test_data)

\* C17: a remote run that returns gives back one row per row of the table;
\* every row of the table is in the result with, after its own columns, the
\* label and score the local predict call on test_pd gave that row; and the
\* result's columns are the table's followed by the two prediction columns.
C17_RemoteAsLocal ==
    RemoteReturned =>
        LET table == remote[1].table
            res   == remote[1].out[1]
            local == last[1].out[1]
        IN  /\ Returned
            /\ last[1].X.rows = table.rows
            /\ Len(res.rows) = Len(table.rows)
            /\ res.columns = table.columns \o <<"PREDICTION_LABEL", "PREDICTION_SCORE">>
            /\ \A h \in 1..Len(table.rows) :
                  \E i \in 1..Len(res.rows) :
                      res.rows[i] = table.rows[h] \o local.rows[h]

\* Witness of C17: a remote run returned whose rows were taken last first
\* and cut into two batches, on rows whose local predictions differ.
C17_Witness ==
    /\ RemoteReturned
    /\ remote[1].order = <<2, 1>>
    /\ remote[1].cut = <<1, 2>>
    /\ last[1].out[1].rows[1] # last[1].out[1].rows[2]
    /\ remote[1].out[1].rows[1] = test_data[2] \o last[1].out[1].rows[2]

====
